---------------------------- MODULE Spec2Model ----------------------------
(***************************************************************************)
(* Model of the check step of github-pr-resource: the filter chain applied *)
(* to the pull requests returned by the Github collaborator, the path      *)
(* matching helpers, and the final sort / collapse of the response.        *)
(*                                                                         *)
(* Strings whose characters matter (titles, commit messages, file paths,   *)
(* glob patterns) are sequences of one-character strings.  Timestamps are  *)
(* naturals; 0 is the zero time.Time of an empty Version.                  *)
(***************************************************************************)
EXTENDS Integers, Sequences, FiniteSets, TLC

\* ------------------------------------------------------------------------
\* Bounds of the model.
\* ------------------------------------------------------------------------

\* Longest list of pull requests the repository holds in one run.
MaxPulls == 2

\* Latest timestamp of a commit, a close or a merge.
MaxDate == 2

\* Longest parent path given to IsInsidePath on its own.
MaxPathLen == 3

\* Longest file list given to FilterPath and FilterIgnorePath on their own.
MaxFiles == 2

\* How far around the defaults and limits of the page parameters the
\* numbers given to the normalisation go.
Margin == 1

\* Longest response given to sort.Sort on its own (the library sorts longer
\* slices than 12 another way).
MaxSorted == 7
\* The most checks in a chain of checks.
MaxRounds == 3

\* ------------------------------------------------------------------------
\* Characters and strings.
\* ------------------------------------------------------------------------

Nil == <<>>

Separator == "/"

ErrBadPattern == "syntax error in pattern"

\* The characters of the model's strings in ASCII order; Ord gives the order
\* that a character class range [lo-hi] compares by.
Alphabet ==
    << " ", "*", "-", ".", "/", "?",
       "A", "B", "C", "D", "E", "F", "G", "H", "I", "J", "K", "L", "M",
       "N", "O", "P", "Q", "R", "S", "T", "U", "V", "W", "X", "Y", "Z",
       "[", "\\", "]", "^",
       "a", "b", "c", "d", "e", "f", "g", "h", "i", "j", "k", "l", "m",
       "n", "o", "p", "q", "r", "s", "t", "u", "v", "w", "x", "y", "z" >>

Ord(c) == CHOOSE k \in 1..Len(Alphabet) : Alphabet[k] = c

Drop(s, n) == SubSeq(s, n + 1, Len(s))

HasPrefix(s, prefix) ==
    /\ Len(prefix) <= Len(s)
    /\ SubSeq(s, 1, Len(prefix)) = prefix

HasSuffix(s, suffix) ==
    /\ Len(suffix) <= Len(s)
    /\ SubSeq(s, Len(s) - Len(suffix) + 1, Len(s)) = suffix

ContainsChar(s, c) == \E k \in 1..Len(s) : s[k] = c

\* Simple case folding of the (?i) flag, on the letters of the alphabet.
FoldCase(c) ==
    IF Ord(c) >= Ord("A") /\ Ord(c) <= Ord("Z")
    THEN Alphabet[Ord(c) - Ord("A") + Ord("a")]
    ELSE c

\* ------------------------------------------------------------------------
\* ContainsSkipCI: regexp (?i)\[(ci skip|skip ci)\], unanchored.
\* ------------------------------------------------------------------------

\* Whether the literal lit (given in lower case) matches s at position k,
\* ignoring case.
LiteralAt(s, k, lit) ==
    /\ k + Len(lit) - 1 <= Len(s)
    /\ \A j \in 1..Len(lit) : FoldCase(s[k + j - 1]) = lit[j]

\* The regexp at position k: "[", one of the two alternatives, "]".
SkipCIAt(s, k) ==
    /\ k <= Len(s)
    /\ s[k] = "["
    /\ \/ LiteralAt(s, k + 1, <<"c", "i", " ", "s", "k", "i", "p">>)
       \/ LiteralAt(s, k + 1, <<"s", "k", "i", "p", " ", "c", "i">>)
    /\ k + 8 <= Len(s)
    /\ s[k + 8] = "]"

\* The regexp anchored at the start of the string.
ContainsSkipCIAnchored(s) == SkipCIAt(s, 1)

ContainsSkipCI(s) == \E k \in 1..Len(s) : SkipCIAt(s, k)

\* ------------------------------------------------------------------------
\* IsInsidePath.
\* ------------------------------------------------------------------------

\* The prefix test without the trailing separator.
IsInsidePathByPrefix(parent, child) == HasPrefix(child, parent)

IsInsidePath(parent, child) ==
    IF parent = child
    THEN TRUE
    ELSE LET parentWithTrailingSlash ==
                 IF ~HasSuffix(parent, <<Separator>>)
                 THEN parent \o <<Separator>>
                 ELSE parent
         IN  HasPrefix(child, parentWithTrailingSlash)

\* ------------------------------------------------------------------------
\* filepath.Match of the Go release the image builds with (golang:1.14):
\* a pattern is read chunk by chunk and a syntax error is reported only
\* where the matcher reads it.
\* ------------------------------------------------------------------------

\* Length of the chunk that starts pattern p (after its leading stars):
\* up to the first star outside a character class.
RECURSIVE ScanEnd(_, _, _)
ScanEnd(p, k, inrange) ==
    IF k > Len(p) THEN Len(p)
    ELSE IF p[k] = "*" /\ ~inrange THEN k - 1
    ELSE LET escaped == p[k] = "\\" /\ k + 1 <= Len(p)
             range   == IF p[k] = "[" THEN TRUE
                        ELSE IF p[k] = "]" THEN FALSE
                        ELSE inrange
         IN  ScanEnd(p, IF escaped THEN k + 2 ELSE k + 1, range)

RECURSIVE StripStars(_)
StripStars(p) ==
    IF Len(p) > 0 /\ p[1] = "*" THEN StripStars(Tail(p)) ELSE p

scanChunk(pattern) ==
    LET p == StripStars(pattern)
        n == ScanEnd(p, 1, FALSE)
    IN  [star  |-> Len(pattern) > 0 /\ pattern[1] = "*",
         chunk |-> SubSeq(p, 1, n),
         rest  |-> Drop(p, n)]

\* One possibly escaped character of a character class.
getEsc(chunk) ==
    IF Len(chunk) = 0 \/ chunk[1] = "-" \/ chunk[1] = "]"
    THEN [r |-> "", nchunk |-> chunk, err |-> ErrBadPattern]
    ELSE LET c == IF chunk[1] = "\\" THEN Tail(chunk) ELSE chunk
         IN  IF Len(c) = 0
             THEN [r |-> "", nchunk |-> c, err |-> ErrBadPattern]
             ELSE [r      |-> c[1],
                   nchunk |-> Tail(c),
                   err    |-> IF Len(c) = 1 THEN ErrBadPattern ELSE ""]

rangeTo(lo, hi) ==
    [lo |-> lo, hi |-> hi.r, nchunk |-> hi.nchunk, err |-> hi.err]

\* The upper end of a range whose lower end lo has been read: lo itself
\* unless a "-" follows.
rangeFrom(lo) ==
    IF lo.err # "" \/ lo.nchunk[1] # "-"
    THEN [lo |-> lo.r, hi |-> lo.r, nchunk |-> lo.nchunk, err |-> lo.err]
    ELSE rangeTo(lo.r, getEsc(Tail(lo.nchunk)))

\* One range lo or lo-hi of a character class read from chunk.
getRange(chunk) == rangeFrom(getEsc(chunk))

\* The ranges of a character class, up to its closing bracket.
RECURSIVE ClassRanges(_, _, _, _)
RECURSIVE afterRange(_, _, _, _)

afterRange(g, r, match, nrange) ==
    IF g.err # ""
    THEN [chunk |-> g.nchunk, match |-> match, err |-> g.err]
    ELSE ClassRanges(g.nchunk, r,
             match \/ (Ord(g.lo) <= Ord(r) /\ Ord(r) <= Ord(g.hi)),
             nrange + 1)

ClassRanges(chunk, r, match, nrange) ==
    IF Len(chunk) > 0 /\ chunk[1] = "]" /\ nrange > 0
    THEN [chunk |-> Tail(chunk), match |-> match, err |-> ""]
    ELSE afterRange(getRange(chunk), r, match, nrange)

classResult(cls, negated) ==
    [ok    |-> cls.err = "" /\ cls.match # negated,
     err   |-> cls.err,
     chunk |-> cls.chunk]

\* The first pattern element of chunk against the first character of s:
\* the chunk left when it matches, else a mismatch or a bad pattern.
chunkHead(chunk, s) ==
    IF chunk[1] = "["
    THEN IF Len(chunk) = 1
         THEN [ok |-> FALSE, err |-> ErrBadPattern, chunk |-> Nil]
         ELSE classResult(
                  ClassRanges(IF chunk[2] = "^" THEN Drop(chunk, 2)
                              ELSE Drop(chunk, 1), s[1], FALSE, 0),
                  chunk[2] = "^")
    ELSE IF chunk[1] = "?"
    THEN [ok |-> s[1] # Separator, err |-> "", chunk |-> Tail(chunk)]
    ELSE IF chunk[1] = "\\"
    THEN IF Len(chunk) = 1
         THEN [ok |-> FALSE, err |-> ErrBadPattern, chunk |-> Nil]
         ELSE [ok |-> chunk[2] = s[1], err |-> "", chunk |-> Drop(chunk, 2)]
    ELSE [ok |-> chunk[1] = s[1], err |-> "", chunk |-> Tail(chunk)]

RECURSIVE matchChunk(_, _)
RECURSIVE afterHead(_, _)

afterHead(h, s) ==
    IF ~h.ok THEN [rest |-> Nil, ok |-> FALSE, err |-> h.err]
    ELSE matchChunk(h.chunk, Tail(s))

matchChunk(chunk, s) ==
    IF Len(chunk) = 0 THEN [rest |-> s, ok |-> TRUE, err |-> ""]
    ELSE IF Len(s) = 0 THEN [rest |-> Nil, ok |-> FALSE, err |-> ""]
    ELSE afterHead(chunkHead(chunk, s), s)

\* Number of characters of name a star may skip: those before the first
\* separator.
RECURSIVE SkipLimit(_, _)
SkipLimit(name, k) ==
    IF k < Len(name) /\ name[k + 1] # Separator
    THEN SkipLimit(name, k + 1)
    ELSE k

\* One chunk of the pattern against name.  The chunk is tried at the
\* current position and, after a star, skipping 1, 2, ... characters; the
\* first attempt that matches (leaving nothing of name when the chunk is
\* the last) or that hits a bad pattern decides.
RECURSIVE Match(_, _)
RECURSIVE matchScanned(_, _)
RECURSIVE matchTries(_, _)
RECURSIVE matchFirst(_, _, _)
RECURSIVE matchAfter(_, _)

matchAfter(sc, t) ==
    IF t.ok
    THEN Match(sc.rest, t.rest)
    ELSE [matched |-> FALSE, err |-> t.err]

matchFirst(sc, try, hits) ==
    IF hits = {}
    THEN [matched |-> FALSE, err |-> ""]
    ELSE matchAfter(sc, try[CHOOSE h \in hits : \A g \in hits : h <= g])

matchTries(sc, try) ==
    matchFirst(sc, try,
        {k \in DOMAIN try :
            \/ try[k].ok /\ (Len(try[k].rest) = 0 \/ Len(sc.rest) > 0)
            \/ ~try[k].ok /\ try[k].err # ""})

matchScanned(sc, name) ==
    IF sc.star /\ sc.chunk = Nil
    THEN [matched |-> ~ContainsChar(name, Separator), err |-> ""]
    ELSE matchTries(sc,
             [k \in 0..(IF sc.star THEN SkipLimit(name, 0) ELSE 0) |->
                 matchChunk(sc.chunk, Drop(name, k))])

Match(pattern, name) ==
    IF Len(pattern) = 0
    THEN [matched |-> Len(name) = 0, err |-> ""]
    ELSE matchScanned(scanChunk(pattern), name)

\* ------------------------------------------------------------------------
\* FilterPath and FilterIgnorePath.
\* ------------------------------------------------------------------------

\* The files at the positions picked, in order.
RECURSIVE Pick(_, _, _)
Pick(files, picked, k) ==
    IF k > Len(files) THEN Nil
    ELSE (IF k \in picked THEN <<files[k]>> ELSE Nil)
         \o Pick(files, picked, k + 1)

\* Given for every file the result ms[k] of filepath.Match: nil and the
\* error when the pattern fails on a file, else the kept files, in order.
filterMatched(files, ms, kept) ==
    IF \E k \in 1..Len(files) : ms[k].err # ""
    THEN [out |-> Nil, err |-> ErrBadPattern]
    ELSE [out |-> Pick(files, kept, 1), err |-> ""]

matchAll(files, pattern) ==
    [k \in 1..Len(files) |-> Match(pattern, files[k])]

\* The files a filter keeps that looks at the glob alone.
keptByIgnoreGlobOnly(files, pattern, ms) ==
    {k \in 1..Len(files) : ~ms[k].matched}

\* The files FilterIgnorePath keeps: !match && !IsInsidePath(pattern, file).
keptByIgnore(files, pattern, ms) ==
    {k \in 1..Len(files) :
        ~ms[k].matched /\ ~IsInsidePath(pattern, files[k])}

ignoreFiltered(files, pattern, ms) ==
    filterMatched(files, ms, keptByIgnore(files, pattern, ms))

FilterIgnorePath(files, pattern) ==
    ignoreFiltered(files, pattern, matchAll(files, pattern))

\* The files FilterPath keeps: match || IsInsidePath(pattern, file).
keptByPath(files, pattern, ms) ==
    {k \in 1..Len(files) :
        ms[k].matched \/ IsInsidePath(pattern, files[k])}

pathFiltered(files, pattern, ms) ==
    filterMatched(files, ms, keptByPath(files, pattern, ms))

FilterPath(files, pattern) ==
    pathFiltered(files, pattern, matchAll(files, pattern))

\* ------------------------------------------------------------------------
\* Versions.
\* ------------------------------------------------------------------------

\* strconv.Itoa
Itoa(n) == ToString(n)

\* time.Time.After
After(t, u) == t > u

UpdatedDate(p) ==
    IF p.State = "CLOSED" THEN p.ClosedAt
    ELSE IF p.State = "MERGED" THEN p.MergedAt
    ELSE p.Tip.CommittedDate

NewVersion(p) ==
    [PR                  |-> Itoa(p.Number),
     Commit              |-> p.Tip.OID,
     CommittedDate       |-> UpdatedDate(p),
     ApprovedReviewCount |-> Itoa(p.ApprovedReviewCount),
     State               |-> p.State]

\* The zero Version of a first check.
EmptyVersion ==
    [PR |-> "", Commit |-> "", CommittedDate |-> 0,
     ApprovedReviewCount |-> "", State |-> ""]

\* ------------------------------------------------------------------------
\* The predicates of the filter chain, in the order Check applies them.
\* ------------------------------------------------------------------------

SkipCITitle(p, source) ==
    ~source.DisableCISkip /\ ContainsSkipCI(p.Title)

SkipCIMessage(p, source) ==
    ~source.DisableCISkip /\ ContainsSkipCI(p.Tip.Message)

\* The base branch compared although none is configured.
WrongBaseBranchAlways(p, source) == p.BaseRefName # source.BaseBranch

WrongBaseBranch(p, source) ==
    source.BaseBranch # "" /\ p.BaseRefName # source.BaseBranch

\* The staleness predicate applied whatever the status context.
TooOldAlways(p, source, version) ==
    ~After(p.Tip.CommittedDate, version.CommittedDate)

TooOld(p, source, version) ==
    /\ source.StatusContext = ""
    /\ ~After(p.Tip.CommittedDate, version.CommittedDate)

AlreadyHasStatus(p, source) ==
    source.StatusContext # "" /\ p.HasStatus

labelFound(p, source) ==
    \E w \in 1..Len(source.Labels) :
        \E t \in 1..Len(p.Labels) : p.Labels[t].Name = source.Labels[w]

\* The label filter asking for every configured label.
MissingLabelsAll(p, source) ==
    \E w \in 1..Len(source.Labels) :
        \A t \in 1..Len(p.Labels) : p.Labels[t].Name # source.Labels[w]

MissingLabels(p, source) ==
    Len(source.Labels) > 0 /\ ~labelFound(p, source)

\* The fork filter applied whatever disable_forks says.
IsForkAlways(p, source) == p.IsCrossRepository

IsFork(p, source) == source.DisableForks /\ p.IsCrossRepository

IsIgnoredDraft(p, source) == source.IgnoreDrafts /\ p.IsDraft

\* The approvals filter asking for more than the minimum.
TooFewApprovalsStrict(p, source) ==
    p.ApprovedReviewCount <= source.RequiredReviewApprovals

TooFewApprovals(p, source) ==
    p.ApprovedReviewCount < source.RequiredReviewApprovals

\* The first predicate that rejects p, "" when none does.
SkipReason(p, source, version) ==
    IF SkipCITitle(p, source) THEN "ci skip in title"
    ELSE IF SkipCIMessage(p, source) THEN "ci skip in commit message"
    ELSE IF WrongBaseBranch(p, source) THEN "base branch"
    ELSE IF TooOld(p, source, version) THEN "too old"
    ELSE IF AlreadyHasStatus(p, source) THEN "has status"
    ELSE IF MissingLabels(p, source) THEN "labels"
    ELSE IF IsFork(p, source) THEN "fork"
    ELSE IF IsIgnoredDraft(p, source) THEN "draft"
    ELSE IF TooFewApprovals(p, source) THEN "review approvals"
    ELSE ""

NeedsFiles(source) == Len(source.Paths) > 0 \/ Len(source.IgnorePaths) > 0

\* The files the required patterns select: the per-pattern matches
\* appended to wanted.
RECURSIVE WantedByPaths(_, _, _)
RECURSIVE appendWanted(_, _, _, _)

\* The matches of a pattern replacing, instead of joining, the wanted files.
appendWantedLast(files, patterns, wanted, w) ==
    IF w.err # "" THEN [out |-> Nil, err |-> w.err]
    ELSE WantedByPaths(files, Tail(patterns), w.out)

appendWanted(files, patterns, wanted, w) ==
    IF w.err # "" THEN [out |-> Nil, err |-> w.err]
    ELSE WantedByPaths(files, Tail(patterns), wanted \o w.out)

WantedByPaths(files, patterns, wanted) ==
    IF patterns = Nil THEN [out |-> wanted, err |-> ""]
    ELSE appendWanted(files, patterns, wanted,
                      FilterPath(files, Head(patterns)))

\* The files left after every ignored pattern has narrowed the list.
RECURSIVE LeftByIgnorePaths(_, _)
RECURSIVE narrowWanted(_, _)

narrowWanted(patterns, w) ==
    IF w.err # "" THEN [out |-> Nil, err |-> w.err]
    ELSE LeftByIgnorePaths(w.out, Tail(patterns))

LeftByIgnorePaths(wanted, patterns) ==
    IF patterns = Nil THEN [out |-> wanted, err |-> ""]
    ELSE narrowWanted(patterns, FilterIgnorePath(wanted, Head(patterns)))

\* "Skip version if all files are ignored", given what the narrowing left.
ignoreOutcome(ign) ==
    IF ign.err # "" THEN [skip |-> "", err |-> "ignore path match failed"]
    ELSE IF Len(ign.out) = 0
    THEN [skip |-> "all files ignored", err |-> ""]
    ELSE [skip |-> "", err |-> ""]

IgnorePathsOutcome(files, source) ==
    IF Len(source.IgnorePaths) > 0
    THEN ignoreOutcome(LeftByIgnorePaths(files, source.IgnorePaths))
    ELSE [skip |-> "", err |-> ""]

\* The ignored paths narrowing the wanted files instead of all the files.
pathsThenIgnoreNarrowed(files, source, req) ==
    IF req.err # "" THEN [skip |-> "", err |-> "path match failed"]
    ELSE IF Len(req.out) = 0
    THEN [skip |-> "no files match paths", err |-> ""]
    ELSE IgnorePathsOutcome(req.out, source)

\* "Skip version if no files match the specified paths", given the wanted
\* files; the ignored paths are looked at only after it.
pathsThenIgnore(files, source, req) ==
    IF req.err # "" THEN [skip |-> "", err |-> "path match failed"]
    ELSE IF Len(req.out) = 0
    THEN [skip |-> "no files match paths", err |-> ""]
    ELSE IgnorePathsOutcome(files, source)

\* The path filters on the fetched files: a skip reason, an error, or
\* neither.
PathsOutcome(files, source) ==
    IF Len(source.Paths) > 0
    THEN pathsThenIgnore(files, source,
                         WantedByPaths(files, source.Paths, Nil))
    ELSE IgnorePathsOutcome(files, source)

\* ------------------------------------------------------------------------
\* sort.Sort on a CheckResponse, as the library of the Go release the image
\* builds with (golang:1.14) sorts a slice of at most 12 elements: one
\* pass that compares and swaps the elements six places apart, then an
\* insertion sort.
\* ------------------------------------------------------------------------

\* The comparison turned around (newest first).
LessNewestFirst(r, i, j) == After(r[i].CommittedDate, r[j].CommittedDate)

Less(r, i, j) == After(r[j].CommittedDate, r[i].CommittedDate)

\* A swap that overwrites one element and loses the other.
SwapLosing(r, i, j) == [r EXCEPT ![i] = r[j]]

Swap(r, i, j) == [r EXCEPT ![i] = r[j], ![j] = r[i]]

RECURSIVE SiftDown(_, _)
SiftDown(r, j) ==
    IF j > 1 /\ Less(r, j, j - 1)
    THEN SiftDown(Swap(r, j, j - 1), j - 1)
    ELSE r

RECURSIVE InsertionSort(_, _)
InsertionSort(r, i) ==
    IF i > Len(r) THEN r ELSE InsertionSort(SiftDown(r, i), i + 1)

\* The pass with gap 6, from element i on.
RECURSIVE ShellPass(_, _)
ShellPass(r, i) ==
    IF i > Len(r) THEN r
    ELSE ShellPass(IF Less(r, i, i - 6) THEN Swap(r, i, i - 6) ELSE r,
                   i + 1)

Sort(r) == IF Len(r) > 1 THEN InsertionSort(ShellPass(r, 7), 2) ELSE r

\* The two collapse rules at the end of Check.
\* The previous version is not put back when nothing is new.
NoNewVersionForgotten(r, version) == r

NoNewVersion(r, version) ==
    IF Len(r) = 0 /\ version.PR # "" THEN Append(r, version) ELSE r

\* The first run keeps the first element instead of the last.
OnlyFirst(r, version) ==
    IF Len(r) # 0 /\ version.PR = "" THEN <<r[1]>> ELSE r

OnlyLatest(r, version) ==
    IF Len(r) # 0 /\ version.PR = "" THEN <<r[Len(r)]>> ELSE r

Collapse(r, version) == OnlyLatest(NoNewVersion(r, version), version)

\* ------------------------------------------------------------------------
\* The page parameters.  SetPaginationParameters is the normalisation of
\* check.go, ValidatePageParameters that of models.go; "" stands for the
\* nil error.
\* ------------------------------------------------------------------------
DefaultMaxPRs == 200

LimitMaxPRs == 500

DefaultPageSize == 50

LimitPageSize == 200

DefaultMaxRetries == 4

LimitMaxRetries == 10

DefaultDelayBetweenPages == 500

LimitDelayBetweenPages == 10000

ValidDefaultMaxPRs == 100

ValidLimitMaxPRs == 2000

ValidDefaultPageSize == 50

ValidLimitPageSize == 100

ValidDefaultMaxRetries == 4

ValidDefaultDelayBetweenPages == 500

\* The zero value Page{}.
ZeroPage ==
    [PageSize |-> 0, MaxPRs |-> 0, SortField |-> "", SortDirection |-> "",
     MaxRetries |-> 0, DelayBetweenPages |-> 0]

\* The limit applied without the default.
limitOnly(n, default, limit) == IF n > limit THEN limit ELSE n

\* A number that is 0 gets the default, one above the limit the limit.
defaultAndLimit(n, default, limit) ==
    IF n = 0 THEN default ELSE IF n > limit THEN limit ELSE n

setPageSize(p) ==
    IF p.PageSize = 0 THEN DefaultPageSize
    ELSE IF p.PageSize > LimitPageSize THEN LimitPageSize
    ELSE IF p.PageSize > p.MaxPRs THEN p.MaxPRs
    ELSE p.PageSize

setSortField(f) ==
    IF f \in {"UPDATED_AT", "CREATED_AT", "COMMENTS"} THEN f
    ELSE "UPDATED_AT"

setSortDirection(d) == IF d \in {"DESC", "ASC"} THEN d ELSE "DESC"

SetPaginationParameters(p) ==
    [MaxPRs            |-> defaultAndLimit(p.MaxPRs, DefaultMaxPRs,
                                           LimitMaxPRs),
     PageSize          |-> setPageSize(p),
     MaxRetries        |-> defaultAndLimit(p.MaxRetries, DefaultMaxRetries,
                                           LimitMaxRetries),
     DelayBetweenPages |-> defaultAndLimit(p.DelayBetweenPages,
                                           DefaultDelayBetweenPages,
                                           LimitDelayBetweenPages),
     SortField         |-> setSortField(p.SortField),
     SortDirection     |-> setSortDirection(p.SortDirection)]

validMaxPRs(p) ==
    IF p.MaxPRs <= 0 THEN ValidDefaultMaxPRs
    ELSE IF p.MaxPRs > ValidLimitMaxPRs THEN ValidLimitMaxPRs
    ELSE p.MaxPRs

validPageSize(p, maxPRs) ==
    IF p.PageSize = 0 THEN ValidDefaultPageSize
    ELSE IF p.PageSize > ValidLimitPageSize THEN ValidLimitPageSize
    ELSE IF p.PageSize > maxPRs THEN maxPRs
    ELSE p.PageSize

validSortField(f) ==
    IF f \in {"UPDATED_AT", "CREATED_AT", "COMMENTS"} THEN f
    ELSE IF f = "" THEN "UPDATED_AT"
    ELSE ""

validSortDirection(d) ==
    IF d \in {"DESC", "ASC"} THEN d
    ELSE IF d = "" THEN "DESC"
    ELSE ""

\* pageError: the sort direction is looked at last and its error replaces
\* that of the sort field.
\* The error of the sort field alone.
pageErrorOfField(p) ==
    IF p.SortField \notin {"UPDATED_AT", "CREATED_AT", "COMMENTS", ""}
    THEN "sort_field not valid"
    ELSE ""

pageError(p) ==
    IF p.SortDirection \notin {"DESC", "ASC", ""} THEN "sort_dir not valid"
    ELSE IF p.SortField \notin {"UPDATED_AT", "CREATED_AT", "COMMENTS", ""}
    THEN "sort_field not valid"
    ELSE ""

validated(p) ==
    [MaxPRs            |-> validMaxPRs(p),
     PageSize          |-> validPageSize(p, validMaxPRs(p)),
     MaxRetries        |-> IF p.MaxRetries = 0 THEN ValidDefaultMaxRetries
                           ELSE p.MaxRetries,
     DelayBetweenPages |-> IF p.DelayBetweenPages = 0
                           THEN ValidDefaultDelayBetweenPages
                           ELSE p.DelayBetweenPages,
     SortField         |-> validSortField(p.SortField),
     SortDirection     |-> validSortDirection(p.SortDirection)]

ValidatePageParameters(p) ==
    IF pageError(p) # "" THEN [page |-> ZeroPage, err |-> pageError(p)]
    ELSE [page |-> validated(p), err |-> ""]

\* The sort fields and directions a request may carry: none, the valid
\* ones and one that is not valid.
SortFields == {"", "UPDATED_AT", "CREATED_AT", "COMMENTS", "_INVALID"}

SortDirections == {"", "DESC", "ASC", "_INVALID"}

\* ------------------------------------------------------------------------
\* State.
\* ------------------------------------------------------------------------

VARIABLES
    request,    \* the CheckRequest: Source, previous Version, Parameters
    github,     \* the repository behind the Github manager
    pc,         \* position of Check: "start", "loop", "done"
    pulls,      \* what ListPullRequests returned
    i,          \* index of the next candidate of the range loop
    response,   \* the CheckResponse
    err,        \* the error Check returns, "" for nil
    survivors,  \* the candidates whose version was appended, in order
    skipped,    \* the candidates LogSkipped reported, with the reason
    calls       \* the calls made on the Github manager

vars == <<request, github, pc, pulls, i, response, err, survivors,
          skipped, calls>>

\* ------------------------------------------------------------------------
\* The Github manager.  Its implementation is outside the check step; it
\* returns the pull requests in one of the wanted states.
\* ------------------------------------------------------------------------

InStates(p, states) == \E k \in 1..Len(states) : states[k] = p.State

ListPullRequests(states, checkedParameters) ==
    SelectSeq(github.PullRequests, LAMBDA p : InStates(p, states))

ListModifiedFiles(number) == github.ModifiedFiles[number]

\* ------------------------------------------------------------------------
\* Check.
\* ------------------------------------------------------------------------

\* The state filter defaulting to every state.
filterStatesAny(source) ==
    IF Len(source.States) > 0 THEN source.States
    ELSE <<"OPEN", "CLOSED", "MERGED">>

filterStates(source) ==
    IF Len(source.States) > 0 THEN source.States ELSE <<"OPEN">>

\* The call of ListPullRequests that opens Check, and its error return.
CallListPullRequests ==
    /\ pc = "start"
    /\ calls' = [calls EXCEPT
                    !.ListPullRequests = @ + 1,
                    !.Parameters =
                        Append(@, SetPaginationParameters(request.Parameters))]
    /\ \E ok \in BOOLEAN :
          IF ok
          THEN /\ pulls' = ListPullRequests(
                                filterStates(request.Source),
                                SetPaginationParameters(request.Parameters))
               /\ pc' = "loop"
               /\ UNCHANGED <<response, err>>
          ELSE /\ err' = "failed to get last commits"
               /\ response' = Nil
               /\ pc' = "done"
               /\ UNCHANGED pulls
    /\ UNCHANGED <<request, github, i, survivors, skipped>>

\* The part of the loop body after the first eight predicates.
fetchAndMatch(p, source, fetchOk) ==
    IF ~NeedsFiles(source)
    THEN [skip |-> "", err |-> "", called |-> FALSE]
    ELSE IF ~fetchOk
    THEN [skip |-> "", err |-> "failed to list modified files",
          called |-> TRUE]
    ELSE [called |-> TRUE] @@ PathsOutcome(ListModifiedFiles(p.Number),
                                           source)

\* The files asked for before the predicates are looked at.
skipOrFetchEager(p, source, fetchOk, reason) ==
    IF reason # ""
    THEN [skip |-> reason, err |-> "", called |-> NeedsFiles(source)]
    ELSE fetchAndMatch(p, source, fetchOk)

skipOrFetch(p, source, fetchOk, reason) ==
    IF reason # ""
    THEN [skip |-> reason, err |-> "", called |-> FALSE]
    ELSE fetchAndMatch(p, source, fetchOk)

\* What one pass of the loop body decides for candidate p, given whether
\* the collaborator returns its files: a skip reason, an error, or neither
\* (p is accepted); called tells whether the files were asked for.
Iteration(p, source, version, fetchOk) ==
    skipOrFetch(p, source, fetchOk, SkipReason(p, source, version))

\* The decision applied with an error that gives back what was accepted.
DecideKeeping(p, d) ==
    /\ calls' = IF d.called
                THEN [calls EXCEPT !.ListModifiedFiles = Append(@, p.Number)]
                ELSE calls
    /\ IF d.err # ""
       THEN /\ err' = d.err
            /\ pc' = "done"
            /\ UNCHANGED <<i, response, survivors, skipped>>
       ELSE IF d.skip # ""
       THEN /\ skipped' = Append(skipped,
                              [Number |-> p.Number, Reason |-> d.skip])
            /\ i' = i + 1
            /\ UNCHANGED <<pc, response, err, survivors>>
       ELSE /\ response' = Append(response, NewVersion(p))
            /\ survivors' = Append(survivors, p)
            /\ i' = i + 1
            /\ UNCHANGED <<pc, err, skipped>>

\* The effect of the decision d on candidate p.
Decide(p, d) ==
    /\ calls' = IF d.called
                THEN [calls EXCEPT !.ListModifiedFiles = Append(@, p.Number)]
                ELSE calls
    /\ IF d.err # ""
       THEN /\ err' = d.err
            /\ response' = Nil
            /\ pc' = "done"
            /\ UNCHANGED <<i, survivors, skipped>>
       ELSE IF d.skip # ""
       THEN /\ skipped' = Append(skipped,
                              [Number |-> p.Number, Reason |-> d.skip])
            /\ i' = i + 1
            /\ UNCHANGED <<pc, response, err, survivors>>
       ELSE /\ response' = Append(response, NewVersion(p))
            /\ survivors' = Append(survivors, p)
            /\ i' = i + 1
            /\ UNCHANGED <<pc, err, skipped>>

\* One pass of the range loop over pulls.
LoopBody ==
    /\ pc = "loop"
    /\ i <= Len(pulls)
    /\ \E fetchOk \in BOOLEAN :
          Decide(pulls[i],
                 Iteration(pulls[i], request.Source, request.Version,
                           fetchOk))
    /\ UNCHANGED <<request, github, pulls>>

\* After the loop: sort, collapse and return.
Resolve ==
    /\ pc = "loop"
    /\ i > Len(pulls)
    /\ response' = Collapse(Sort(response), request.Version)
    /\ pc' = "done"
    /\ UNCHANGED <<request, github, pulls, i, err, survivors, skipped,
                   calls>>

Next == CallListPullRequests \/ LoopBody \/ Resolve

\* ------------------------------------------------------------------------
\* The requests and repositories the model starts from.
\* ------------------------------------------------------------------------

Dates == 1..MaxDate

DefaultSource ==
    [Paths                   |-> Nil,
     IgnorePaths             |-> Nil,
     DisableCISkip           |-> FALSE,
     DisableForks            |-> FALSE,
     IgnoreDrafts            |-> FALSE,
     BaseBranch              |-> "",
     RequiredReviewApprovals |-> 0,
     Labels                  |-> Nil,
     States                  |-> Nil,
     StatusContext           |-> ""]

\* A pull request before it has a number, with its changed files.
PlainShape ==
    [Title               |-> <<"f", "i", "x">>,
     Message             |-> <<"w", "i", "p">>,
     BaseRefName         |-> "master",
     IsCrossRepository   |-> FALSE,
     IsDraft             |-> FALSE,
     State               |-> "OPEN",
     ClosedAt            |-> 0,
     MergedAt            |-> 0,
     CommittedDate       |-> MaxDate,
     ApprovedReviewCount |-> 0,
     Labels              |-> Nil,
     HasStatus           |-> FALSE,
     Files               |-> Nil]

Oids == <<"a1f", "b2e", "c3d", "d4c", "e5b", "f6a">>

Pull(shape, n) ==
    [Number              |-> n,
     Title               |-> shape.Title,
     BaseRefName         |-> shape.BaseRefName,
     IsCrossRepository   |-> shape.IsCrossRepository,
     IsDraft             |-> shape.IsDraft,
     State               |-> shape.State,
     ClosedAt            |-> shape.ClosedAt,
     MergedAt            |-> shape.MergedAt,
     Tip                 |-> [OID           |-> Oids[n],
                              CommittedDate |-> shape.CommittedDate,
                              Message       |-> shape.Message],
     ApprovedReviewCount |-> shape.ApprovedReviewCount,
     Labels              |-> shape.Labels,
     HasStatus           |-> shape.HasStatus]

\* The repository holding the pull requests of the shapes, numbered by
\* position.
Repository(shapes) ==
    [PullRequests  |-> [k \in 1..Len(shapes) |-> Pull(shapes[k], k)],
     ModifiedFiles |-> [k \in 1..Len(shapes) |-> shapes[k].Files]]

ListsOf(S) == UNION {[1..n -> S] : n \in 0..MaxPulls}

\* The version of pull request 1 reported by an earlier check.
PriorVersion(d) ==
    [PR |-> "1", Commit |-> "000", CommittedDate |-> d,
     ApprovedReviewCount |-> "0", State |-> "OPEN"]

Versions == {EmptyVersion} \cup {PriorVersion(d) : d \in Dates}

\* Dates and lifecycle, no status context: open, closed and merged pull
\* requests with every combination of tip date and close or merge date.
DateShapes ==
    {[PlainShape EXCEPT !.CommittedDate = t] : t \in Dates}
    \cup
    {[PlainShape EXCEPT !.State = "CLOSED", !.CommittedDate = t,
                        !.ClosedAt = c] : t \in Dates, c \in Dates}
    \cup
    {[PlainShape EXCEPT !.State = "MERGED", !.CommittedDate = t,
                        !.ClosedAt = c, !.MergedAt = c] :
        t \in Dates, c \in Dates}

StateFilters ==
    {Nil, <<"CLOSED", "MERGED">>, <<"OPEN", "CLOSED", "MERGED">>}

InitDates ==
    \E shapes \in ListsOf(DateShapes), v \in Versions, st \in StateFilters :
        /\ github = Repository(shapes)
        /\ request = [Source  |-> [DefaultSource EXCEPT !.States = st],
                      Version |-> v,
                      Parameters |-> ZeroPage]

\* Status context: open pull requests of every tip date, with and without
\* the status.
StatusShapes ==
    {[PlainShape EXCEPT !.CommittedDate = t, !.HasStatus = h] :
        t \in Dates, h \in BOOLEAN}

InitStatus ==
    \E shapes \in ListsOf(StatusShapes), v \in Versions :
        /\ github = Repository(shapes)
        /\ request = [Source  |-> [DefaultSource EXCEPT
                                      !.StatusContext = "ci"],
                      Version |-> v,
                      Parameters |-> ZeroPage]

\* Content filters: pull requests that differ from the plain one in one
\* trait, and every combination of the options that look at the traits.
ContentShapes ==
    << PlainShape,
       [PlainShape EXCEPT !.Title =
           <<"[", "c", "i", " ", "s", "k", "i", "p", "]", " ", "x">>],
       [PlainShape EXCEPT !.Title =
           <<"x", " ", "[", "S", "k", "i", "p", " ", "C", "I", "]">>],
       [PlainShape EXCEPT !.Title =
           <<"c", "i", " ", "s", "k", "i", "p">>],
       [PlainShape EXCEPT !.Title =
           <<"[", "s", "k", "i", "p", "-", "c", "i", "]">>],
       [PlainShape EXCEPT !.Message =
           <<"w", "i", "p", " ", "[", "s", "k", "i", "p", " ", "c", "i",
             "]">>],
       [PlainShape EXCEPT !.BaseRefName = "develop"],
       [PlainShape EXCEPT !.IsCrossRepository = TRUE],
       [PlainShape EXCEPT !.IsDraft = TRUE],
       [PlainShape EXCEPT !.ApprovedReviewCount = 1],
       [PlainShape EXCEPT !.Labels = <<[Name |-> "bug"]>>],
       [PlainShape EXCEPT !.Labels = <<[Name |-> "doc"]>>],
       [PlainShape EXCEPT !.Labels = <<[Name |-> "doc"], [Name |-> "wip"]>>]
    >>

\* The lists of at most MaxPulls shapes, each shape once and in the order
\* of S.
SubListsOf(S) ==
    UNION {{[k \in 1..n |-> S[f[k]]] :
               f \in {g \in [1..n -> 1..Len(S)] :
                         \A a, b \in 1..n : a < b => g[a] < g[b]}} :
           n \in 0..MaxPulls}

InitContent ==
    \E shapes \in SubListsOf(ContentShapes),
       v \in {EmptyVersion, PriorVersion(1)},
       noSkip \in BOOLEAN, base \in {"", "master"},
       labels \in {Nil, <<"bug", "wip">>},
       noForks \in BOOLEAN, noDrafts \in BOOLEAN, approvals \in {0, 1} :
        /\ github = Repository(shapes)
        /\ request = [Source  |-> [DefaultSource EXCEPT
                                      !.DisableCISkip = noSkip,
                                      !.BaseBranch = base,
                                      !.Labels = labels,
                                      !.DisableForks = noForks,
                                      !.IgnoreDrafts = noDrafts,
                                      !.RequiredReviewApprovals = approvals],
                      Version |-> v,
                      Parameters |-> ZeroPage]

\* Path filters: pull requests that differ in their changed files, a draft
\* that is ignored whatever its files, and
\* required and ignored patterns: globs, a directory, a class, a pattern
\* with an unclosed class.
FileReadme == <<"a", ".", "m", "d">>

FileSource == <<"d", "/", "x", ".", "g", "o">>

FileDeep == <<"d", "/", "s", "/", "y", ".", "g", "o">>

FileSibling == <<"d", "a", "/", "z">>

FileLists ==
    {Nil, <<FileReadme>>, <<FileSource>>, <<FileReadme, FileSource>>,
     <<FileDeep>>, <<FileSibling>>}

PathShapes ==
    {[PlainShape EXCEPT !.Files = f] : f \in FileLists}
    \cup {[PlainShape EXCEPT !.Files = <<FileReadme>>, !.IsDraft = TRUE]}

PatternLists ==
    {Nil,
     << <<"*", ".", "m", "d">> >>,
     << <<"d">> >>,
     << <<"d", "/", "*", ".", "g", "o">>, <<"[", "a", "-", "c", "]", ".",
        "m", "d">> >>,
     << <<"*", ".", "m", "d">>, <<"d", "/", "[">> >>}

InitPaths ==
    \E shapes \in ListsOf(PathShapes),
       v \in {EmptyVersion, PriorVersion(1)},
       paths \in PatternLists, ignore \in PatternLists :
        /\ github = Repository(shapes)
        /\ request = [Source  |-> [DefaultSource EXCEPT
                                      !.IgnoreDrafts = TRUE,
                                      !.Paths = paths,
                                      !.IgnorePaths = ignore],
                      Version |-> v,
                      Parameters |-> ZeroPage]

\* Page parameters: plain pull requests, and requests that differ in the
\* page size, max_prs, sort field and sort direction they ask for.
InitParameters ==
    \E shapes \in ListsOf({PlainShape}),
       v \in {EmptyVersion, PriorVersion(1)},
       size \in {0, 20}, prs \in {0, 10},
       field \in SortFields, dir \in SortDirections :
        /\ github = Repository(shapes)
        /\ request = [Source  |-> DefaultSource,
                      Version |-> v,
                      Parameters |-> [ZeroPage EXCEPT
                                         !.PageSize = size,
                                         !.MaxPRs = prs,
                                         !.SortField = field,
                                         !.SortDirection = dir]]

InitCheck ==
    /\ pc = "start"
    /\ pulls = Nil
    /\ i = 1
    /\ response = Nil
    /\ err = ""
    /\ survivors = Nil
    /\ skipped = Nil
    /\ calls = [ListPullRequests |-> 0, ListModifiedFiles |-> Nil,
                Parameters |-> Nil]

Init ==
    /\ InitCheck
    /\ InitDates \/ InitStatus \/ InitContent \/ InitPaths
       \/ InitParameters

Spec == Init /\ [][Next]_vars

\* ------------------------------------------------------------------------
\* Vocabulary of the properties.
\* ------------------------------------------------------------------------

Range(f) == {f[k] : k \in DOMAIN f}

\* Check has returned.
Returned == pc = "done"

\* Check has returned after every candidate went through the filter chain.
ChainRan ==
    /\ pc = "done"
    /\ calls.ListPullRequests = 1
    /\ err # "failed to get last commits"
    /\ i > Len(pulls)

\* The candidates the loop has dealt with: accepted or skipped.
Processed == {k \in 1..Len(pulls) : k < i}

\* The reason candidate number n was skipped for, "" when it was not.
ReasonOf(n) ==
    IF \E e \in Range(skipped) : e.Number = n
    THEN (CHOOSE e \in Range(skipped) : e.Number = n).Reason
    ELSE ""

\* The effective date of a pull request: closed-at if closed, merged-at if
\* merged, otherwise the committed date of the tip.
EffectiveDate(p) ==
    CASE p.State = "CLOSED" -> p.ClosedAt
      [] p.State = "MERGED" -> p.MergedAt
      [] OTHER              -> p.Tip.CommittedDate

\* The version of pull request p: its number in decimal, its tip, its
\* effective date, its approvals in decimal, its state.
VersionOf(p) ==
    [PR                  |-> ToString(p.Number),
     Commit              |-> p.Tip.OID,
     CommittedDate       |-> EffectiveDate(p),
     ApprovedReviewCount |-> ToString(p.ApprovedReviewCount),
     State               |-> p.State]

Occurrences(seq, x) == Cardinality({k \in DOMAIN seq : seq[k] = x})

\* The reasons of predicates 1 and 2, which come before the staleness and
\* status predicates.
EarlierReasons ==
    {"ci skip in title", "ci skip in commit message", "base branch"}

\* The reasons of predicates 1 to 8.
ChainReasons ==
    EarlierReasons \cup
    {"too old", "has status", "labels", "fork", "draft", "review approvals"}

\* ------------------------------------------------------------------------
\* C1: first-run collapse.  When the previous version is empty and at
\* least one candidate survived the chain, the response has exactly one
\* element: the version of a survivor whose effective date is the maximum
\* over all survivors.
\* ------------------------------------------------------------------------
C1_FirstRunCollapse ==
    (ChainRan /\ request.Version.PR = "" /\ survivors # Nil) =>
        /\ Len(response) = 1
        /\ \E k \in DOMAIN survivors :
              /\ response[1] = VersionOf(survivors[k])
              /\ \A j \in DOMAIN survivors :
                    EffectiveDate(survivors[j])
                        <= EffectiveDate(survivors[k])

\* A first run with two survivors where the latest one is not the last
\* candidate of the list.
C1_Witness ==
    /\ ChainRan
    /\ request.Version.PR = ""
    /\ Len(response) = 1
    /\ \E j, k \in DOMAIN survivors :
          /\ j < k
          /\ EffectiveDate(survivors[j]) > EffectiveDate(survivors[k])

\* ------------------------------------------------------------------------
\* C2: no-new collapse.  When no candidate survived the chain and the
\* previous version is not empty, Check returns without error exactly the
\* previous version, equal in every field.
\* ------------------------------------------------------------------------
C2_NoNewCollapse ==
    (ChainRan /\ survivors = Nil /\ request.Version.PR # "") =>
        /\ err = ""
        /\ response = <<request.Version>>

\* Every candidate of a non-empty list was rejected and the previous
\* version came back.
C2_Witness ==
    /\ ChainRan
    /\ survivors = Nil
    /\ Len(pulls) > 0
    /\ request.Version.PR # ""
    /\ response = <<request.Version>>

\* ------------------------------------------------------------------------
\* C3: incremental case.  When the previous version is not empty and at
\* least one candidate survived, the response holds the version of every
\* survivor exactly once and nothing else.
\* ------------------------------------------------------------------------
C3_Incremental ==
    (ChainRan /\ request.Version.PR # "" /\ survivors # Nil) =>
        /\ Len(response) = Len(survivors)
        /\ \A k \in DOMAIN survivors :
              Occurrences(response, VersionOf(survivors[k])) = 1
        /\ \A j \in DOMAIN response :
              \E k \in DOMAIN survivors :
                  response[j] = VersionOf(survivors[k])

\* An incremental check whose sort moved a survivor, with the previous
\* version not among the versions returned.
C3_Witness ==
    /\ ChainRan
    /\ request.Version.PR # ""
    /\ Len(survivors) >= 2
    /\ response[1] # VersionOf(survivors[1])
    /\ request.Version \notin Range(response)

\* ------------------------------------------------------------------------
\* C4: monotonic ordering.  In every list Check returns, the effective
\* date of a version is at most that of the version after it.
\* ------------------------------------------------------------------------
C4_MonotonicOrdering ==
    Returned =>
        \A k \in 1..(Len(response) - 1) :
            response[k].CommittedDate <= response[k + 1].CommittedDate

\* A returned list of two or more versions whose survivors were found
\* newest first.
C4_Witness ==
    /\ Returned
    /\ Len(response) >= 2
    /\ EffectiveDate(survivors[1]) > EffectiveDate(survivors[2])

\* ------------------------------------------------------------------------
\* C5: staleness filter.  With no status context configured, a candidate
\* that reaches the staleness predicate is rejected by it exactly when its
\* effective date is not strictly after the date of the previous version.
\* ------------------------------------------------------------------------
C5_StalenessByEffectiveDate ==
    request.Source.StatusContext = "" =>
        \A k \in Processed :
            ReasonOf(pulls[k].Number) \notin EarlierReasons =>
                (ReasonOf(pulls[k].Number) = "too old"
                    <=> ~(EffectiveDate(pulls[k])
                              > request.Version.CommittedDate))

\* ------------------------------------------------------------------------
\* C6: close and merge are detected without a new commit.  With no status
\* context, a closed or merged candidate that no other predicate rejects,
\* closed or merged strictly after the date of the previous version while
\* its tip is not, is reported with its closed-at or merged-at date.
\* ------------------------------------------------------------------------
C6_CloseDetectedWithoutCommit ==
    (ChainRan /\ request.Source.StatusContext = "") =>
        \A k \in DOMAIN pulls :
            ( /\ pulls[k].State \in {"CLOSED", "MERGED"}
              /\ ReasonOf(pulls[k].Number) \in {"", "too old"}
              /\ EffectiveDate(pulls[k]) > request.Version.CommittedDate
              /\ pulls[k].Tip.CommittedDate
                     <= request.Version.CommittedDate )
            => \E j \in DOMAIN response :
                  /\ response[j].PR = ToString(pulls[k].Number)
                  /\ response[j].CommittedDate = EffectiveDate(pulls[k])

\* ------------------------------------------------------------------------
\* C7: status-context mode.  With a status context configured no candidate
\* is rejected as too old, a candidate that reaches predicates 3/4 is
\* rejected there exactly when it has the status, and a candidate without
\* the status that no other predicate rejects is returned by an
\* incremental check whatever its date.
\* ------------------------------------------------------------------------
C7_StatusContextMode ==
    request.Source.StatusContext # "" =>
        /\ \A k \in Processed :
              /\ ReasonOf(pulls[k].Number) # "too old"
              /\ ReasonOf(pulls[k].Number) \notin EarlierReasons =>
                    (ReasonOf(pulls[k].Number) = "has status"
                        <=> pulls[k].HasStatus)
        /\ (ChainRan /\ request.Version.PR # "") =>
              \A k \in DOMAIN pulls :
                  ( /\ ~pulls[k].HasStatus
                    /\ ReasonOf(pulls[k].Number)
                           \notin (ChainReasons \ {"too old", "has status"})
                    /\ ReasonOf(pulls[k].Number)
                           \notin {"no files match paths",
                                   "all files ignored"} )
                  => VersionOf(pulls[k]) \in Range(response)

\* With a status context, the pull request of the previous version comes
\* back although its date is not after that of the previous version, next
\* to a candidate rejected for having the status.
C7_Witness ==
    /\ ChainRan
    /\ request.Source.StatusContext # ""
    /\ \E j \in DOMAIN response :
          /\ response[j].PR = request.Version.PR
          /\ response[j].CommittedDate <= request.Version.CommittedDate
    /\ \E e \in Range(skipped) : e.Reason = "has status"

\* ------------------------------------------------------------------------
\* C8: CI-skip filter.  Unless disable_ci_skip is set, a candidate is
\* rejected by the CI-skip predicates exactly when its title or its tip
\* commit message contains [ci skip] or [skip ci] anywhere, in any letter
\* case; when it is set, the marker rejects no candidate.
\* ------------------------------------------------------------------------

\* The letters of the markers, lowered.
LowerOf(c) ==
    CASE c = "C" -> "c" [] c = "I" -> "i" [] c = "S" -> "s"
      [] c = "K" -> "k" [] c = "P" -> "p" [] OTHER -> c

Markers ==
    { <<"[", "c", "i", " ", "s", "k", "i", "p", "]">>,
      <<"[", "s", "k", "i", "p", " ", "c", "i", "]">> }

HasMarker(s) ==
    \E a \in 1..Len(s) : \E b \in a..Len(s) :
        [k \in 1..(b - a + 1) |-> LowerOf(s[a + k - 1])] \in Markers

CISkipReasons == {"ci skip in title", "ci skip in commit message"}

C8_CISkipFilter ==
    \A k \in Processed :
        IF request.Source.DisableCISkip
        THEN ReasonOf(pulls[k].Number) \notin CISkipReasons
        ELSE ReasonOf(pulls[k].Number) \in CISkipReasons
                 <=> (HasMarker(pulls[k].Title)
                      \/ HasMarker(pulls[k].Tip.Message))

\* A title that carries the marker after other text and in mixed case is
\* rejected, and a title with the words but no brackets is accepted.
C8_Witness ==
    /\ ~request.Source.DisableCISkip
    /\ \E k \in Processed :
          /\ ReasonOf(pulls[k].Number) = "ci skip in title"
          /\ pulls[k].Title[1] # "["
          /\ \E c \in Range(pulls[k].Title) : c \in {"S", "C", "I"}
    /\ \E k \in DOMAIN survivors :
          survivors[k].Title = <<"c", "i", " ", "s", "k", "i", "p">>

\* ------------------------------------------------------------------------
\* C9: required-paths filter.  With paths configured, a candidate that
\* passed predicates 1 to 8 survives the filter exactly when one of its
\* changed files matches one of the patterns; a candidate without changed
\* files is rejected.
\* ------------------------------------------------------------------------

\* The changed files of candidate k.
FilesOf(k) == github.ModifiedFiles[pulls[k].Number]

\* The path matcher: the glob matches the file or the file lies inside the
\* directory the pattern names.
Selects(pattern, file) ==
    Match(pattern, file).matched \/ IsInsidePath(pattern, file)

SomeFileWanted(k) ==
    \E file \in Range(FilesOf(k)), pattern \in Range(request.Source.Paths) :
        Selects(pattern, file)

C9_RequiredPaths ==
    request.Source.Paths # Nil =>
        \A k \in Processed :
            ReasonOf(pulls[k].Number) \notin ChainReasons =>
                /\ ReasonOf(pulls[k].Number) # "no files match paths"
                       <=> SomeFileWanted(k)
                /\ FilesOf(k) = Nil =>
                       ReasonOf(pulls[k].Number) = "no files match paths"

\* A candidate whose only file matches the second pattern and not the
\* first is accepted, and a candidate without files is rejected.
C9_Witness ==
    /\ Len(request.Source.Paths) = 2
    /\ \E k \in Processed :
          /\ ReasonOf(pulls[k].Number) = ""
          /\ \A file \in Range(FilesOf(k)) :
                ~Selects(request.Source.Paths[1], file)
    /\ \E k \in Processed :
          /\ FilesOf(k) = Nil
          /\ ReasonOf(pulls[k].Number) = "no files match paths"

\* ------------------------------------------------------------------------
\* C10: ignored-paths filter.  With ignore_paths configured, a candidate
\* that reaches the filter is rejected by it exactly when every one of its
\* changed files matches an ignored pattern, whatever the required paths
\* selected; a candidate that passed predicates 1 to 8 is accepted exactly
\* when it passes the required-paths filter and the ignored-paths filter.
\* ------------------------------------------------------------------------
EveryFileIgnored(k) ==
    \A file \in Range(FilesOf(k)) :
        \E pattern \in Range(request.Source.IgnorePaths) :
            Selects(pattern, file)

C10_IgnoredPaths ==
    request.Source.IgnorePaths # Nil =>
        \A k \in Processed :
            ReasonOf(pulls[k].Number) \notin ChainReasons =>
                /\ ReasonOf(pulls[k].Number) # "no files match paths" =>
                       (ReasonOf(pulls[k].Number) = "all files ignored"
                            <=> EveryFileIgnored(k))
                /\ ReasonOf(pulls[k].Number) = ""
                       <=> /\ request.Source.Paths # Nil => SomeFileWanted(k)
                           /\ ~EveryFileIgnored(k)

\* A candidate is accepted although every file the required paths select
\* is ignored, because another of its files is not.
C10_Witness ==
    /\ request.Source.Paths # Nil
    /\ request.Source.IgnorePaths # Nil
    /\ \E k \in Processed :
          /\ ReasonOf(pulls[k].Number) = ""
          /\ \A file \in Range(FilesOf(k)) :
                (\E pattern \in Range(request.Source.Paths) :
                     Selects(pattern, file))
                => \E pattern \in Range(request.Source.IgnorePaths) :
                     Selects(pattern, file)

\* ------------------------------------------------------------------------
\* C11: error propagation.  When ListPullRequests fails, ListModifiedFiles
\* fails for a candidate or a path pattern is reported as bad, Check
\* returns the error with a nil response: the versions accepted before the
\* error are not returned and no collapse rule is applied; and Check
\* returns without error only after every candidate went through the loop.
\* ------------------------------------------------------------------------
CheckErrors ==
    {"failed to get last commits", "failed to list modified files",
     "path match failed", "ignore path match failed"}

C11_ErrorPropagation ==
    Returned =>
        /\ err \in CheckErrors \cup {""}
        /\ err # "" => response = Nil
        /\ err = "" => i > Len(pulls)
        /\ (err # "" /\ err # "failed to get last commits") =>
              i <= Len(pulls)

\* The files of the second candidate could not be listed after the first
\* candidate had been accepted, on a check with a previous version.
C11_Witness ==
    /\ Returned
    /\ err = "failed to list modified files"
    /\ survivors # Nil
    /\ response = Nil
    /\ request.Version.PR # ""

\* ------------------------------------------------------------------------
\* C12: a malformed glob pattern is always an error.  Whenever a candidate
\* reaches the path filters and a configured pattern is malformed, Check
\* returns an error, whatever the changed files of the candidate are: no
\* candidate gets through the required paths, accepted or skipped, when
\* one of them is malformed, nor through the ignored paths when one of
\* those is malformed.
\* ------------------------------------------------------------------------

\* Where the class item (a character, or an escaped one) that starts at
\* position k of pattern p ends; 0 when there is no item there or the
\* pattern ends with it.
ItemEnd(p, k) ==
    IF k > Len(p) \/ p[k] \in {"-", "]"} THEN 0
    ELSE IF p[k] = "\\"
    THEN (IF k + 2 <= Len(p) THEN k + 2 ELSE 0)
    ELSE (IF k + 1 <= Len(p) THEN k + 1 ELSE 0)

\* The syntax of patterns: an escape is followed by a character, a class
\* is closed and holds at least one range.
RECURSIVE GlobOK(_, _)
RECURSIVE ClassOK(_, _, _)
RECURSIVE RangeOK(_, _, _)

GlobOK(p, k) ==
    IF k > Len(p) THEN TRUE
    ELSE IF p[k] = "\\" THEN k + 1 <= Len(p) /\ GlobOK(p, k + 2)
    ELSE IF p[k] = "["
    THEN ClassOK(p, IF k + 1 <= Len(p) /\ p[k + 1] = "^"
                    THEN k + 2 ELSE k + 1, 0)
    ELSE GlobOK(p, k + 1)

RangeOK(p, e, n) ==
    IF e = 0 THEN FALSE
    ELSE IF p[e] = "-"
    THEN ItemEnd(p, e + 1) # 0 /\ ClassOK(p, ItemEnd(p, e + 1), n + 1)
    ELSE ClassOK(p, e, n + 1)

ClassOK(p, k, n) ==
    IF k > Len(p) THEN FALSE
    ELSE IF p[k] = "]" /\ n > 0 THEN GlobOK(p, k + 1)
    ELSE RangeOK(p, ItemEnd(p, k), n)

Malformed(pattern) == ~GlobOK(pattern, 1)

C12_MalformedAlwaysReported ==
    \A k \in Processed :
        ReasonOf(pulls[k].Number) \notin ChainReasons =>
            /\ \A pattern \in Range(request.Source.Paths) :
                  ~Malformed(pattern)
            /\ ReasonOf(pulls[k].Number) # "no files match paths" =>
                  \A pattern \in Range(request.Source.IgnorePaths) :
                      ~Malformed(pattern)

\* ------------------------------------------------------------------------
\* C13: label filter.  With labels configured, a candidate that reaches
\* the filter is rejected by it exactly when none of its label names
\* equals a configured label; with no labels configured, no candidate is
\* rejected for its labels.
\* ------------------------------------------------------------------------
LabelNames(p) == {p.Labels[t].Name : t \in DOMAIN p.Labels}

BeforeLabels == EarlierReasons \cup {"too old", "has status"}

C13_LabelFilter ==
    \A k \in Processed :
        IF request.Source.Labels = Nil
        THEN ReasonOf(pulls[k].Number) # "labels"
        ELSE ReasonOf(pulls[k].Number) \notin BeforeLabels =>
                (ReasonOf(pulls[k].Number) = "labels"
                    <=> LabelNames(pulls[k])
                            \cap Range(request.Source.Labels) = {})

\* A candidate with one configured label and one other label is accepted
\* although another configured label is missing from it, and a candidate
\* with labels but no configured one is rejected.
C13_Witness ==
    /\ \E k \in DOMAIN survivors :
          /\ LabelNames(survivors[k]) \cap Range(request.Source.Labels) # {}
          /\ Range(request.Source.Labels) \ LabelNames(survivors[k]) # {}
          /\ LabelNames(survivors[k]) \ Range(request.Source.Labels) # {}
    /\ \E k \in Processed :
          /\ ReasonOf(pulls[k].Number) = "labels"
          /\ LabelNames(pulls[k]) # {}

\* ------------------------------------------------------------------------
\* C14: review-approval filter.  A candidate that reaches the filter is
\* rejected by it exactly when its approved-review count is strictly less
\* than required_review_approvals; with the minimum 0 no candidate is
\* rejected by it.
\* ------------------------------------------------------------------------
BeforeApprovals == BeforeLabels \cup {"labels", "fork", "draft"}

C14_ReviewApprovals ==
    \A k \in Processed :
        /\ ReasonOf(pulls[k].Number) \notin BeforeApprovals =>
              (ReasonOf(pulls[k].Number) = "review approvals"
                  <=> pulls[k].ApprovedReviewCount
                          < request.Source.RequiredReviewApprovals)
        /\ request.Source.RequiredReviewApprovals = 0 =>
              ReasonOf(pulls[k].Number) # "review approvals"

\* With a minimum above 0, a candidate with exactly the minimum is accepted
\* and a candidate below it is rejected.
C14_Witness ==
    /\ request.Source.RequiredReviewApprovals > 0
    /\ \E k \in DOMAIN survivors :
          survivors[k].ApprovedReviewCount
              = request.Source.RequiredReviewApprovals
    /\ \E k \in Processed :
          ReasonOf(pulls[k].Number) = "review approvals"

\* ------------------------------------------------------------------------
\* C15: base-branch filter.  With base_branch configured, a candidate that
\* reaches the filter is rejected by it exactly when its base branch name
\* differs from the configured one; with base_branch empty, no candidate
\* is rejected for its base branch.
\* ------------------------------------------------------------------------
C15_BaseBranch ==
    \A k \in Processed :
        IF request.Source.BaseBranch = ""
        THEN ReasonOf(pulls[k].Number) # "base branch"
        ELSE ReasonOf(pulls[k].Number) \notin CISkipReasons =>
                (ReasonOf(pulls[k].Number) = "base branch"
                    <=> pulls[k].BaseRefName # request.Source.BaseBranch)

\* With a base branch configured, a candidate on it is accepted and a
\* candidate on another branch is rejected.
C15_Witness ==
    /\ request.Source.BaseBranch # ""
    /\ \E k \in DOMAIN survivors :
          survivors[k].BaseRefName = request.Source.BaseBranch
    /\ \E k \in Processed :
          /\ ReasonOf(pulls[k].Number) = "base branch"
          /\ pulls[k].BaseRefName # request.Source.BaseBranch

\* ------------------------------------------------------------------------
\* C16: fork and draft filters.  A cross-repository candidate that reaches
\* the fork filter is rejected by it exactly when disable_forks is set,
\* and a draft candidate that reaches the draft filter is rejected by it
\* exactly when ignore_drafts is set; no other candidate is rejected by
\* these filters.
\* ------------------------------------------------------------------------
BeforeForks == BeforeLabels \cup {"labels"}

C16_ForksAndDrafts ==
    \A k \in Processed :
        /\ ReasonOf(pulls[k].Number) \notin BeforeForks =>
              (ReasonOf(pulls[k].Number) = "fork"
                  <=> (pulls[k].IsCrossRepository
                       /\ request.Source.DisableForks))
        /\ ReasonOf(pulls[k].Number) \notin (BeforeForks \cup {"fork"}) =>
              (ReasonOf(pulls[k].Number) = "draft"
                  <=> (pulls[k].IsDraft /\ request.Source.IgnoreDrafts))

\* A fork is rejected and a draft accepted when only disable_forks is set.
C16_Witness ==
    /\ request.Source.DisableForks
    /\ ~request.Source.IgnoreDrafts
    /\ \E k \in Processed :
          /\ ReasonOf(pulls[k].Number) = "fork"
          /\ pulls[k].IsCrossRepository
    /\ \E k \in DOMAIN survivors : survivors[k].IsDraft

\* ------------------------------------------------------------------------
\* C17: state filter.  As claimed: every version Check returns has a
\* lifecycle state that belongs to the configured states, {OPEN} when none
\* is configured.
\* ------------------------------------------------------------------------
ConfiguredStates ==
    IF request.Source.States = Nil THEN {"OPEN"}
    ELSE Range(request.Source.States)

C17_EveryReturnedStateConfigured ==
    Returned =>
        \A j \in DOMAIN response : response[j].State \in ConfiguredStates

\* C17, amended: every version Check returns is the version of a listed
\* pull request whose lifecycle state belongs to the configured states,
\* {OPEN} when none is configured, unless no candidate was accepted and
\* the response is the previous version given back as it came; a pull
\* request whose state is not configured is never a candidate.
C17_StateFilter ==
    /\ \A k \in DOMAIN pulls : pulls[k].State \in ConfiguredStates
    /\ Returned =>
          \/ /\ survivors = Nil
             /\ request.Version.PR # ""
             /\ response \in {Nil, <<request.Version>>}
          \/ \A j \in DOMAIN response :
                /\ response[j].State \in ConfiguredStates
                /\ \E p \in Range(github.PullRequests) :
                      /\ p.State \in ConfiguredStates
                      /\ response[j] = VersionOf(p)

\* Check returns the version of a pull request in a configured state
\* while the repository holds a pull request in a state that is not
\* configured.
C17_Witness ==
    /\ Returned
    /\ err = ""
    /\ survivors # Nil
    /\ request.Source.States # Nil
    /\ \E p \in Range(github.PullRequests) : p.State \notin ConfiguredStates
    /\ \A j \in DOMAIN response : response[j].State \in ConfiguredStates

\* ------------------------------------------------------------------------
\* IsInsidePath on its own: called once on a parent and a child drawn from
\* the paths of at most MaxPathLen (the parent) and MaxPathLen + 1 (the
\* child) characters.  request holds the arguments and response the
\* result.
\* ------------------------------------------------------------------------
PathAlphabet == {"a", "b", Separator}

PathsUpTo(n) == UNION {[1..m -> PathAlphabet] : m \in 0..n}

\* No repository takes part in the call of a function on its own.
NoGithub == github = [PullRequests |-> Nil, ModifiedFiles |-> Nil]

InitInsidePath ==
    /\ InitCheck
    /\ NoGithub
    /\ \E parent \in PathsUpTo(MaxPathLen),
          child \in PathsUpTo(MaxPathLen + 1) :
           request = [parent |-> parent, child |-> child]

CallIsInsidePath ==
    /\ pc = "start"
    /\ response' = IsInsidePath(request.parent, request.child)
    /\ pc' = "done"
    /\ UNCHANGED <<request, github, pulls, i, err, survivors, skipped,
                   calls>>

SpecInsidePath == InitInsidePath /\ [][CallIsInsidePath]_vars

\* ------------------------------------------------------------------------
\* C18: IsInsidePath(parent, child) is true exactly when child equals
\* parent or child starts with parent followed by one separator, none
\* being added to a parent that ends with one.
\* ------------------------------------------------------------------------
StartsWith(s, t) == Len(s) >= Len(t) /\ SubSeq(s, 1, Len(t)) = t

EndsWithSeparator(s) == Len(s) > 0 /\ s[Len(s)] = "/"

InsideAsClaimed(parent, child) ==
    \/ child = parent
    \/ IF EndsWithSeparator(parent)
       THEN StartsWith(child, parent)
       ELSE StartsWith(child, parent \o <<"/">>)

C18_IsInsidePath ==
    pc = "done" =>
        response = InsideAsClaimed(request.parent, request.child)

\* The sibling a/bb is found not to be inside a/b.
C18_Witness ==
    /\ pc = "done"
    /\ request.parent = <<"a", "/", "b">>
    /\ request.child = <<"a", "/", "b", "b">>
    /\ response = FALSE

\* ------------------------------------------------------------------------
\* FilterPath and FilterIgnorePath on their own: called one after the
\* other on the same list of at most MaxFiles files and the same
\* well-formed pattern.  request holds the arguments, response the two
\* results and err the error of either call.
\* ------------------------------------------------------------------------
FileNames ==
    {FileReadme, FileSource, FileDeep, FileSibling, <<"d">>,
     <<"b", ".", "m", "d">>, <<"*", ".", "m", "d">>}

GlobPatterns ==
    { <<"*", ".", "m", "d">>,
      <<"d">>,
      <<"d", "/">>,
      <<"d", "/", "*", ".", "g", "o">>,
      <<"d", "/", "*">>,
      <<"*", "/", "*", ".", "g", "o">>,
      <<"d", "*">>,
      <<"*">>,
      <<"?", ".", "m", "d">>,
      <<"d", "?", "x", ".", "g", "o">>,
      <<"[", "a", "-", "c", "]", ".", "m", "d">>,
      <<"[", "^", "a", "]", ".", "m", "d">>,
      <<"d", "[", ".", "-", "a", "]", "*">>,
      <<"\\", "*", ".", "m", "d">>,
      <<"*", "d", "*", "/", "*", "y", "*">> }

FileListsUpTo(n) == UNION {[1..m -> FileNames] : m \in 0..n}

InitFilter ==
    /\ InitCheck
    /\ NoGithub
    /\ \E files \in FileListsUpTo(MaxFiles), pattern \in GlobPatterns :
           request = [files |-> files, pattern |-> pattern]

\* What a call leaves in err: the error it returned, else what was there.
errAfter(r) == IF r.err # "" THEN r.err ELSE err

CallFilterPath ==
    /\ pc = "start"
    /\ response' = [wanted |-> FilterPath(request.files,
                                          request.pattern).out]
    /\ err' = errAfter(FilterPath(request.files, request.pattern))
    /\ pc' = "filtered"
    /\ UNCHANGED <<request, github, pulls, i, survivors, skipped, calls>>

CallFilterIgnorePath ==
    /\ pc = "filtered"
    /\ response' = [wanted |-> response.wanted,
                    left   |-> FilterIgnorePath(request.files,
                                                request.pattern).out]
    /\ err' = errAfter(FilterIgnorePath(request.files, request.pattern))
    /\ pc' = "done"
    /\ UNCHANGED <<request, github, pulls, i, survivors, skipped, calls>>

NextFilter == CallFilterPath \/ CallFilterIgnorePath

SpecFilter == InitFilter /\ [][NextFilter]_vars

\* ------------------------------------------------------------------------
\* C19: for every file list and every well-formed pattern, FilterPath
\* returns, in the order of the input, exactly the files that match the
\* pattern as a glob whose wildcards stay within one path segment or that
\* lie inside it, FilterIgnorePath returns, in the order of the input,
\* exactly the other files, and neither reports an error.
\* ------------------------------------------------------------------------

\* The character an item of a class that starts at position k stands for.
ItemChar(p, k) == IF p[k] = "\\" THEN p[k + 1] ELSE p[k]

\* Reading the class of a well-formed pattern p from position k, n ranges
\* having been read: where the pattern goes on after the class, and
\* whether one of the ranges read from k on holds the character c.
RECURSIVE ClassHit(_, _, _, _)
ClassHit(p, k, n, c) ==
    IF p[k] = "]" /\ n > 0 THEN [next |-> k + 1, hit |-> FALSE]
    ELSE LET e    == ItemEnd(p, k)
             lo   == ItemChar(p, k)
             span == p[e] = "-"
             hi   == IF span THEN ItemChar(p, e + 1) ELSE lo
             rest == ClassHit(p, IF span THEN ItemEnd(p, e + 1) ELSE e,
                              n + 1, c)
         IN  [next |-> rest.next,
              hit  |-> rest.hit \/ (Ord(lo) <= Ord(c) /\ Ord(c) <= Ord(hi))]

\* Whether the well-formed pattern p from position a matches the name s
\* from position b to its end: a star stands for any run of characters
\* without a separator, a question mark for one character that is not a
\* separator, a class for one character it holds (or does not hold, when
\* negated), an escaped character and any other character for itself.
RECURSIVE GlobFrom(_, _, _, _)
GlobFrom(p, a, s, b) ==
    IF a > Len(p) THEN b > Len(s)
    ELSE IF p[a] = "*"
    THEN \E m \in b..(Len(s) + 1) :
            /\ \A t \in b..(m - 1) : s[t] # "/"
            /\ GlobFrom(p, a + 1, s, m)
    ELSE IF b > Len(s) THEN FALSE
    ELSE IF p[a] = "?" THEN s[b] # "/" /\ GlobFrom(p, a + 1, s, b + 1)
    ELSE IF p[a] = "\\" THEN s[b] = p[a + 1] /\ GlobFrom(p, a + 2, s, b + 1)
    ELSE IF p[a] = "["
    THEN LET negated == p[a + 1] = "^"
             cls == ClassHit(p, IF negated THEN a + 2 ELSE a + 1, 0, s[b])
         IN  cls.hit # negated /\ GlobFrom(p, cls.next, s, b + 1)
    ELSE s[b] = p[a] /\ GlobFrom(p, a + 1, s, b + 1)

GlobMatches(pattern, name) == GlobFrom(pattern, 1, name, 1)

SelectedAsClaimed(pattern, file) ==
    GlobMatches(pattern, file) \/ InsideAsClaimed(pattern, file)

C19_FiltersPartition ==
    /\ \A pattern \in GlobPatterns : ~Malformed(pattern)
    /\ pc = "done" =>
          /\ err = ""
          /\ response.wanted =
                 SelectSeq(request.files,
                     LAMBDA f : SelectedAsClaimed(request.pattern, f))
          /\ response.left =
                 SelectSeq(request.files,
                     LAMBDA f : ~SelectedAsClaimed(request.pattern, f))
          /\ Len(response.wanted) + Len(response.left) = Len(request.files)
          /\ Range(response.wanted) \cap Range(response.left) = {}

\* A directory pattern takes the file inside the directory and leaves the
\* file of the sibling directory, each of two files going to one result.
C19_Witness ==
    /\ pc = "done"
    /\ request.pattern = <<"d">>
    /\ request.files = <<FileSibling, FileSource>>
    /\ response.wanted = <<FileSource>>
    /\ response.left = <<FileSibling>>

\* ------------------------------------------------------------------------
\* The normalisations on their own: one of them is called once on page
\* parameters whose numbers lie within Margin of 0, of a default or of a
\* limit, and then once more on the page it returned.  request holds the
\* argument, response the function called and the page it returned, err
\* its error.
\* ------------------------------------------------------------------------
Around(n) == (n - Margin)..(n + Margin)

SizeInts ==
    Around(0) \cup Around(10) \cup Around(DefaultPageSize)
         \cup Around(ValidLimitPageSize) \cup Around(LimitPageSize)
         \cup Around(LimitMaxPRs) \cup Around(ValidLimitMaxPRs)

RetryInts == {0, 2, LimitMaxRetries + Margin}

DelayInts == {0, 7000, LimitDelayBetweenPages + Margin}

InitPage ==
    /\ InitCheck
    /\ NoGithub
    /\ \E size \in SizeInts, prs \in SizeInts, field \in SortFields,
          dir \in SortDirections, retries \in RetryInts,
          delay \in DelayInts :
           request = [PageSize |-> size, MaxPRs |-> prs,
                      SortField |-> field, SortDirection |-> dir,
                      MaxRetries |-> retries, DelayBetweenPages |-> delay]

CallSetPaginationParameters ==
    /\ pc = "start"
    /\ response' = [of   |-> "SetPaginationParameters",
                    page |-> SetPaginationParameters(request)]
    /\ pc' = "done"
    /\ UNCHANGED <<request, github, pulls, i, err, survivors, skipped,
                   calls>>

CallValidatePageParameters ==
    /\ pc = "start"
    /\ response' = [of   |-> "ValidatePageParameters",
                    page |-> ValidatePageParameters(request).page]
    /\ err' = ValidatePageParameters(request).err
    /\ pc' = "done"
    /\ UNCHANGED <<request, github, pulls, i, survivors, skipped, calls>>

\* What the function called before returns for the page p.
sameCall(of, p) ==
    IF of = "SetPaginationParameters"
    THEN [page |-> SetPaginationParameters(p), err |-> ""]
    ELSE ValidatePageParameters(p)

\* The same function called on the page it returned; first keeps that
\* page.
CallAgain ==
    /\ pc = "done"
    /\ err = ""
    /\ response' = [of    |-> response.of,
                    page  |-> sameCall(response.of, response.page).page,
                    first |-> response.page]
    /\ err' = sameCall(response.of, response.page).err
    /\ pc' = "again"
    /\ UNCHANGED <<request, github, pulls, i, survivors, skipped, calls>>

NextPage ==
    CallSetPaginationParameters \/ CallValidatePageParameters \/ CallAgain

SpecPage == InitPage /\ [][NextPage]_vars

\* ------------------------------------------------------------------------
\* C20: for every input, the page size of the normalised page parameters
\* is less than or equal to their normalised max_prs.
\* ------------------------------------------------------------------------
C20_PageSizeWithinMaxPRs ==
    (pc = "done" /\ err = "") =>
        response.page.PageSize <= response.page.MaxPRs

\* The defaults and limits of the function that was called.
CalledSet == response.of = "SetPaginationParameters"

DefaultMaxPRsCalled ==
    IF CalledSet THEN DefaultMaxPRs ELSE ValidDefaultMaxPRs

LimitMaxPRsCalled == IF CalledSet THEN LimitMaxPRs ELSE ValidLimitMaxPRs

LimitPageSizeCalled ==
    IF CalledSet THEN LimitPageSize ELSE ValidLimitPageSize

\* The normalisation returned a page and no error.
Normalised == pc = "done" /\ err = ""

\* ------------------------------------------------------------------------
\* C21: when max_prs is omitted (0) and the page size is positive and not
\* above its limit, the normalisation returns that page size unchanged
\* together with the default max_prs.
\* ------------------------------------------------------------------------
C21_PageSizeKeptWithoutMaxPRs ==
    ( /\ Normalised
      /\ request.MaxPRs = 0
      /\ request.PageSize > 0
      /\ request.PageSize <= LimitPageSizeCalled )
    => /\ response.page.PageSize = request.PageSize
       /\ response.page.MaxPRs = DefaultMaxPRsCalled

\* ------------------------------------------------------------------------
\* C22: for every input, each numeric field of the normalised page
\* parameters is at least 1 and at most its maximum: 10 for the retries,
\* 10000 for the delay between pages, the limits of the function called
\* for max_prs and the page size.
\* ------------------------------------------------------------------------
C22_NumericFieldsWithinBounds ==
    Normalised =>
        /\ response.page.MaxPRs \in 1..LimitMaxPRsCalled
        /\ response.page.PageSize \in 1..LimitPageSizeCalled
        /\ response.page.MaxRetries \in 1..LimitMaxRetries
        /\ response.page.DelayBetweenPages \in 1..LimitDelayBetweenPages

\* ------------------------------------------------------------------------
\* C23: defaults and identity.  As claimed: the normalisation maps the
\* input whose fields are all zero or empty to page size 50, max_prs 100,
\* sort field UPDATED_AT, sort direction DESC, 4 retries and a delay of
\* 500, and returns unchanged an input whose fields are all set, valid and
\* within bounds with the page size not above max_prs.
\* ------------------------------------------------------------------------
ValidFields == {"UPDATED_AT", "CREATED_AT", "COMMENTS"}

ValidDirections == {"ASC", "DESC"}

AllSetAndValid(p) ==
    /\ p.MaxPRs \in 1..LimitMaxPRsCalled
    /\ p.PageSize \in 1..LimitPageSizeCalled
    /\ p.PageSize <= p.MaxPRs
    /\ p.MaxRetries \in 1..LimitMaxRetries
    /\ p.DelayBetweenPages \in 1..LimitDelayBetweenPages
    /\ p.SortField \in ValidFields
    /\ p.SortDirection \in ValidDirections

DefaultsWith(maxPRs) ==
    [PageSize |-> 50, MaxPRs |-> maxPRs, SortField |-> "UPDATED_AT",
     SortDirection |-> "DESC", MaxRetries |-> 4, DelayBetweenPages |-> 500]

C24_ValidateErrors ==
    (pc = "done" /\ ~CalledSet) =>
        /\ err # "" <=>
              \/ request.SortField \notin ValidFields \cup {""}
              \/ request.SortDirection \notin ValidDirections \cup {""}
        /\ err # "" => response.page = ZeroPage
        /\ err = "" =>
              /\ response.page.SortField \in ValidFields
              /\ response.page.SortDirection \in ValidDirections

\* A sort direction that is not valid, next to a valid sort field, makes
\* ValidatePageParameters return an error and the zero page.
C24_Witness ==
    /\ pc = "done"
    /\ ~CalledSet
    /\ request.SortField = "CREATED_AT"
    /\ request.SortDirection = "_INVALID"
    /\ request.PageSize > 0
    /\ err # ""
    /\ response.page = ZeroPage

\* ------------------------------------------------------------------------
\* C25: a Check request whose sort field or sort direction is not valid
\* fails at once: Check calls neither ListPullRequests nor
\* ListModifiedFiles and returns an error and no versions.
\* ------------------------------------------------------------------------
C25_InvalidSortFailsAtOnce ==
    ( \/ request.Parameters.SortField \notin ValidFields \cup {""}
      \/ request.Parameters.SortDirection \notin ValidDirections \cup {""} )
    => /\ calls.ListPullRequests = 0
       /\ calls.ListModifiedFiles = Nil
       /\ Returned => (err # "" /\ response = Nil)

\* ------------------------------------------------------------------------
\* C26: calls on the Github manager in one Check.  ListPullRequests is
\* called once, before any call of ListModifiedFiles; ListModifiedFiles is
\* called at most once for a candidate, only for candidates that passed
\* predicates 1 to 8 (once for each of them that the loop reached, when
\* paths or ignore_paths are configured), and never when neither is
\* configured.
\* ------------------------------------------------------------------------

\* The candidates the loop has taken up: those dealt with and the one
\* whose files or patterns made Check return an error.
TakenUp ==
    {k \in 1..Len(pulls) :
        k < i \/ (k = i /\ pc = "done"
                  /\ err \in CheckErrors \ {"failed to get last commits"})}

C26_CallProtocol ==
    /\ calls.ListPullRequests <= 1
    /\ pc # "start" => calls.ListPullRequests = 1
    /\ calls.ListModifiedFiles # Nil => calls.ListPullRequests = 1
    /\ \A n \in Range(calls.ListModifiedFiles) :
          /\ Occurrences(calls.ListModifiedFiles, n) = 1
          /\ ReasonOf(n) \notin ChainReasons
          /\ \E k \in TakenUp : pulls[k].Number = n
    /\ (request.Source.Paths = Nil /\ request.Source.IgnorePaths = Nil) =>
          calls.ListModifiedFiles = Nil
    /\ (request.Source.Paths # Nil \/ request.Source.IgnorePaths # Nil) =>
          \A k \in TakenUp :
              ReasonOf(pulls[k].Number) \notin ChainReasons =>
                  pulls[k].Number \in Range(calls.ListModifiedFiles)

\* With two patterns configured and two candidates, one of them an
\* ignored draft, the files of the other alone were asked for, once.
C26_Witness ==
    /\ Returned
    /\ err = ""
    /\ Len(request.Source.Paths) = 2
    /\ Len(pulls) = 2
    /\ \E e \in Range(skipped) : e.Reason = "draft"
    /\ Len(calls.ListModifiedFiles) = 1
    /\ calls.ListPullRequests = 1

\* ------------------------------------------------------------------------
\* sort.Sort on its own: called once on a response of at most MaxSorted
\* versions, one for each of the pull requests 1, 2, ... in the order
\* ListPullRequests returned them, with any dates.  request holds the
\* response before the sort and response the sorted one.
\* ------------------------------------------------------------------------
VersionAt(k, date) ==
    [PR |-> ToString(k), Commit |-> Oids[1], CommittedDate |-> date,
     ApprovedReviewCount |-> "0", State |-> "OPEN"]

InitSort ==
    /\ InitCheck
    /\ NoGithub
    /\ \E n \in 0..MaxSorted :
          \E dates \in [1..n -> Dates] :
              request = [response |-> [k \in 1..n |->
                                          VersionAt(k, dates[k])]]

CallSort ==
    /\ pc = "start"
    /\ response' = Sort(request.response)
    /\ pc' = "done"
    /\ UNCHANGED <<request, github, pulls, i, err, survivors, skipped,
                   calls>>

SpecSort == InitSort /\ [][CallSort]_vars

\* ------------------------------------------------------------------------
\* C27: the sort is stable.  Two versions with equal effective dates are
\* in the sorted response in the order they had before the sort, the
\* order in which ListPullRequests returned their pull requests.
\* ------------------------------------------------------------------------
PlaceOf(k) == CHOOSE j \in DOMAIN response : response[j].PR = ToString(k)

C27_SortStable ==
    pc = "done" =>
        \A a, b \in DOMAIN request.response :
            ( /\ a < b
              /\ request.response[a].CommittedDate
                     = request.response[b].CommittedDate )
            => PlaceOf(a) < PlaceOf(b)

\* ------------------------------------------------------------------------
\* C28: the normalisation is idempotent.  For every input on which it
\* succeeds, the same function applied to the page it returned succeeds
\* and returns that page again.
\* ------------------------------------------------------------------------
C28_Idempotent ==
    pc = "again" => (err = "" /\ response.page = response.first)

\* ------------------------------------------------------------------------
\* Chains of checks.  The check of a resource runs again and again on the
\* same source, each time with the last version the check before it
\* returned; the repository does not change.  No status context; tip dates
\* go one past the dates of the versions so that a tip can be newer than
\* the newest version.  calls.ListPullRequests counts the checks.
\* ------------------------------------------------------------------------
ChainDates == 1..(MaxDate + 1)

ChainShapes ==
    {[PlainShape EXCEPT !.CommittedDate = t] : t \in ChainDates}
    \cup
    {[PlainShape EXCEPT !.State = "CLOSED", !.CommittedDate = t,
                        !.ClosedAt = c] : t \in ChainDates, c \in ChainDates}
    \cup
    {[PlainShape EXCEPT !.State = "MERGED", !.CommittedDate = t,
                        !.ClosedAt = c, !.MergedAt = c] :
        t \in ChainDates, c \in ChainDates}

InitChain ==
    /\ InitCheck
    /\ \E shapes \in ListsOf(ChainShapes), st \in StateFilters,
          v \in {EmptyVersion} \cup {PriorVersion(d) : d \in ChainDates} :
        /\ github = Repository(shapes)
        /\ request = [Source  |-> [DefaultSource EXCEPT !.States = st],
                      Version |-> v,
                      Parameters |-> ZeroPage]

\* The next check of the chain: the same source, the last version of the
\* response as the previous version.
CheckAgain ==
    /\ pc = "done"
    /\ err = ""
    /\ response # Nil
    /\ calls.ListPullRequests < MaxRounds
    /\ request' = [request EXCEPT !.Version = response[Len(response)]]
    /\ pc' = "start"
    /\ pulls' = Nil
    /\ i' = 1
    /\ response' = Nil
    /\ survivors' = Nil
    /\ skipped' = Nil
    /\ UNCHANGED <<github, err, calls>>

NextChain == CallListPullRequests \/ LoopBody \/ Resolve \/ CheckAgain

SpecChain == InitChain /\ [][NextChain]_vars

\* ------------------------------------------------------------------------
\* C29: repeated checks reach a fixed point.  With no status context and
\* an unchanged repository and source, every check from the second of a
\* chain on returns exactly the one-element list holding the previous
\* version it was given.
\* ------------------------------------------------------------------------
C29_FixedPoint ==
    (Returned /\ err = "" /\ calls.ListPullRequests >= 2)
        => response = <<request.Version>>

\* ------------------------------------------------------------------------
\* C30: the version cursor never moves backwards.  With no status context,
\* the date of the last version Check returns is not before the date of
\* the previous version it was given.
\* ------------------------------------------------------------------------
C30_CursorNeverBackwards ==
    (Returned /\ err = "" /\ response # Nil)
        => response[Len(response)].CommittedDate
               >= request.Version.CommittedDate

=============================================================================
